---------------------------- MODULE Spec2Model ----------------------------
(***************************************************************************)
(* Banker's algorithm (src/project3.cpp): the BankersAlgorithm class and   *)
(* the main() flow that parses a state description and an optional         *)
(* request from standard input, runs the safety check, simulates the       *)
(* grant and prints the verdict.                                           *)
(*                                                                         *)
(* Vectors are functions over 0..R-1, matrices functions over 0..P-1 of    *)
(* vectors, exactly as the code indexes them.  A token of the input stream *)
(* is a sequence of one-character strings.                                 *)
(***************************************************************************)
EXTENDS Integers, Sequences, FiniteSets

(* ------------------------------ bounds -------------------------------- *)
\* largest process count the input may announce
MaxP == 2
\* largest resource count the input may announce
MaxR == 2
\* largest entry of Available, Max and Allocation in the input
MaxVal == 1
\* largest component of the request in the input
MaxReq == 1
\* magnitude of the most negative component of the request in the input
MaxNeg == 1

\* safety-check specification: largest process count
SafeMaxP == 3
\* safety-check specification: largest entry of Max
SafeMaxMax == 2
\* safety-check specification: number of isSafe() calls in a row
MaxCalls == 2

\* object specification: number of member-function calls on one object
ObjectCalls == 1

Vals == 0..MaxVal
ReqVals == (0 - MaxNeg)..MaxReq

(* --------------------------- vectors, tokens --------------------------- *)
Idx(n) == 0..(n - 1)

ZeroVec(n) == [j \in Idx(n) |-> 0]

ZeroMat(p, r) == [i \in Idx(p) |-> ZeroVec(r)]

\* vector<T>::size() of a vector held as a function over 0..n-1
Size(v) == Cardinality(DOMAIN v)

KwR == <<"R">>
KwLowerR == <<"r">>
KwP == <<"P">>
KwLowerP == <<"p">>
KwAvailable == <<"A", "v", "a", "i", "l", "a", "b", "l", "e">>
KwMax == <<"M", "a", "x">>
KwAllocation == <<"A", "l", "l", "o", "c", "a", "t", "i", "o", "n">>

DigitChars == <<"0", "1", "2", "3", "4", "5", "6", "7", "8", "9">>

IsDigit(c) == \E d \in 1..10 : DigitChars[d] = c

DigitVal(c) == (CHOOSE d \in 1..10 : DigitChars[d] = c) - 1

\* the decimal numeral of n >= 0 as a sequence of characters
RECURSIVE Numeral(_)
Numeral(n) ==
    IF n < 10 THEN <<DigitChars[n + 1]>>
    ELSE Append(Numeral(n \div 10), DigitChars[(n % 10) + 1])

\* tokens the environment may put at a keyword position
KeywordTokens ==
    {KwR, KwLowerR, KwP, KwLowerP, KwAvailable, KwMax, KwAllocation, <<"X">>}

\* tokens the environment may put at the request position: "P<k>" for every
\* k up to MaxP (k = numProcesses and above are out of range), a lower-case
\* prefix, a numeral with trailing garbage, and the unparseable forms.
ProcTokens ==
    {<<"P">> \o Numeral(k) : k \in 0..MaxP}
        \cup {<<"p">> \o Numeral(0), <<"P", "x">>, <<"X", "1">>,
              <<"P", "-", "1">>}

(* --------------------------- std::stoi --------------------------------- *)
RECURSIVE DigitPrefixLen(_)
DigitPrefixLen(s) ==
    IF s = <<>> \/ ~IsDigit(Head(s)) THEN 0 ELSE 1 + DigitPrefixLen(Tail(s))

RECURSIVE DigitsValue(_, _)
DigitsValue(s, acc) ==
    IF s = <<>> \/ ~IsDigit(Head(s)) THEN acc
    ELSE DigitsValue(Tail(s), acc * 10 + DigitVal(Head(s)))

\* std::stoi(s): optional sign, then the longest prefix of digits; throws
\* (ok = FALSE) when there is no digit.  Trailing characters are ignored.
Stoi(s) ==
    LET signed == s # <<>> /\ Head(s) \in {"+", "-"}
        body == IF signed THEN Tail(s) ELSE s
        mag == DigitsValue(body, 0)
    IN  IF DigitPrefixLen(body) = 0 THEN [ok |-> FALSE, val |-> 0]
        ELSE [ok |-> TRUE,
              val |-> IF signed /\ Head(s) = "-" THEN 0 - mag ELSE mag]

\* main(): pid from the request token
ParsePid(procName) ==
    IF procName # <<>> /\ (Head(procName) = "P" \/ Head(procName) = "p")
    THEN LET r == Stoi(Tail(procName)) IN IF r.ok THEN r.val ELSE 0 - 1
    ELSE 0 - 1

(* ------------------------------ streams ------------------------------- *)
\* one line written to standard output: which line it is, the request token
\* it quotes (if any) and the integers it holds (if any)
OutLine(kind, proc, row) == [line |-> kind, proc |-> proc, row |-> row]

\* cin >> x for n integers in a row, each drawn from D.  Either all n are
\* extracted, or extraction fails at the (m+1)-th (end of stream or a token
\* that is no integer): the stream is then in the failed state, the
\* remaining targets hold 0, and every later extraction fails too.
ReadInts(n, ok, D) ==
    IF ~ok THEN {[vals |-> [k \in 1..n |-> 0], ok |-> FALSE]}
    ELSE {[vals |-> v, ok |-> TRUE] : v \in [1..n -> D]}
            \cup UNION {{[vals |-> [k \in 1..n |-> IF k <= m THEN v[k] ELSE 0],
                          ok |-> FALSE] : v \in [1..m -> D]} : m \in 0..(n - 1)}

\* row i of a P x R matrix read in row-major order
RowOf(vals, i, r) == [j \in Idx(r) |-> vals[i * r + j + 1]]

\* one line written to std::cerr: the fixed text and the token it quotes
ErrLine(msg, token) == [msg |-> msg, token |-> token]

\* one entry of the log of member-function calls
Call(op, p, req, ret) == [op |-> op, pid |-> p, req |-> req, ret |-> ret]

(* ------------------------ class BankersAlgorithm ----------------------- *)
\* BankersAlgorithm(processes, resources): everything zero-filled
Construct(processes, resources) ==
    [numProcesses |-> processes,
     numResources |-> resources,
     allocation |-> ZeroMat(processes, resources),
     max |-> ZeroMat(processes, resources),
     need |-> ZeroMat(processes, resources),
     available |-> ZeroVec(resources)]

setAvailable(b, av) ==
    IF Size(av) # b.numResources THEN b
    ELSE [b EXCEPT !.available = av]

setMaxRowNoSizeCheck(b, pid, row) ==
    IF pid < 0 \/ pid >= b.numProcesses THEN b
    ELSE [b EXCEPT !.max[pid] = row]

setMaxRow(b, pid, row) ==
    IF pid < 0 \/ pid >= b.numProcesses THEN b
    ELSE IF Size(row) # b.numResources THEN b
    ELSE [b EXCEPT !.max[pid] = row]

setAllocationRow(b, pid, row) ==
    IF pid < 0 \/ pid >= b.numProcesses THEN b
    ELSE IF Size(row) # b.numResources THEN b
    ELSE [b EXCEPT !.allocation[pid] = row]

computeNeedUnclamped(b) ==
    [b EXCEPT !.need =
        [i \in Idx(b.numProcesses) |->
            [j \in Idx(b.numResources) |-> b.max[i][j] - b.allocation[i][j]]]]

computeNeed(b) ==
    [b EXCEPT !.need =
        [i \in Idx(b.numProcesses) |->
            [j \in Idx(b.numResources) |->
                LET d == b.max[i][j] - b.allocation[i][j]
                IN  IF d < 0 THEN 0 ELSE d]]]

\* isSafe(), the test of one process: no j with need[i][j] > work[j]
CanFinish(b, i, work) ==
    \A j \in Idx(b.numResources) : ~(b.need[i][j] > work[j])

\* isSafe(), the body of the for loop at process i
ScanStepNoRelease(b, i, st) ==
    IF st.finish[i] THEN st
    ELSE IF CanFinish(b, i, st.work)
         THEN [work |-> st.work,
               finish |-> [st.finish EXCEPT ![i] = TRUE],
               progressed |-> TRUE]
         ELSE st

ScanStep(b, i, st) ==
    IF st.finish[i] THEN st
    ELSE IF CanFinish(b, i, st.work)
         THEN [work |-> [j \in Idx(b.numResources) |->
                            st.work[j] + b.allocation[i][j]],
               finish |-> [st.finish EXCEPT ![i] = TRUE],
               progressed |-> TRUE]
         ELSE st

\* isSafe(), the for loop over the processes from index i upwards
RECURSIVE Scan(_, _, _)
Scan(b, i, st) ==
    IF i >= b.numProcesses THEN st
    ELSE Scan(b, i + 1, ScanStep(b, i, st))

\* isSafe(), one pass: progressed is reset, then the processes are scanned
Pass(b, work, finish) ==
    Scan(b, 0, [work |-> work, finish |-> finish, progressed |-> FALSE])

SafetyLoopOnePass(b, work, finish, passes) ==
    LET st == Pass(b, work, finish)
    IN  [work |-> st.work, finish |-> st.finish, passes |-> passes + 1]

RECURSIVE SafetyLoopExtraPass(_, _, _, _)
SafetyLoopExtraPass(b, work, finish, passes) ==
    LET st == Pass(b, work, finish)
    IN  IF ~st.progressed
        THEN [work |-> st.work, finish |-> st.finish, passes |-> passes + 2]
        ELSE SafetyLoopExtraPass(b, st.work, st.finish, passes + 1)

\* isSafe(), the while (true) loop: passes until one makes no progress
RECURSIVE SafetyLoop(_, _, _, _)
SafetyLoop(b, work, finish, passes) ==
    LET st == Pass(b, work, finish)
    IN  IF ~st.progressed
        THEN [work |-> st.work, finish |-> st.finish, passes |-> passes + 1]
        ELSE SafetyLoop(b, st.work, st.finish, passes + 1)

\* the same loop run on the member instead of a copy of it
isSafeInPlace(b) ==
    LET r == SafetyLoop(b, b.available,
                        [i \in Idx(b.numProcesses) |-> FALSE], 0)
    IN  [ret |-> \A i \in Idx(b.numProcesses) : r.finish[i],
         passes |-> r.passes,
         obj |-> [b EXCEPT !.available = r.work]]

\* isSafe() const: the returned boolean, the number of passes of the loop,
\* and the object as the call leaves it
isSafe(b) ==
    LET r == SafetyLoop(b, b.available,
                        [i \in Idx(b.numProcesses) |-> FALSE], 0)
    IN  [ret |-> \A i \in Idx(b.numProcesses) : r.finish[i],
         passes |-> r.passes,
         obj |-> b]

canRequestNonNegative(b, pid, req) ==
    IF pid < 0 \/ pid >= b.numProcesses THEN [ret |-> FALSE, obj |-> b]
    ELSE [ret |-> \A j \in Idx(b.numResources) :
                     /\ req[j] >= 0
                     /\ ~(req[j] > b.need[pid][j])
                     /\ ~(req[j] > b.available[j]),
          obj |-> b]

canRequestAvailableOnly(b, pid, req) ==
    IF pid < 0 \/ pid >= b.numProcesses THEN [ret |-> FALSE, obj |-> b]
    ELSE [ret |-> \A j \in Idx(b.numResources) : ~(req[j] > b.available[j]),
          obj |-> b]

canRequestNeedOnly(b, pid, req) ==
    IF pid < 0 \/ pid >= b.numProcesses THEN [ret |-> FALSE, obj |-> b]
    ELSE [ret |-> \A j \in Idx(b.numResources) : ~(req[j] > b.need[pid][j]),
          obj |-> b]

\* canRequest() const
canRequest(b, pid, req) ==
    IF pid < 0 \/ pid >= b.numProcesses THEN [ret |-> FALSE, obj |-> b]
    ELSE [ret |-> \A j \in Idx(b.numResources) :
                     ~(req[j] > b.need[pid][j]) /\ ~(req[j] > b.available[j]),
          obj |-> b]

applyRequestKeepAvailable(b, pid, req) ==
    IF pid < 0 \/ pid >= b.numProcesses THEN b
    ELSE [b EXCEPT
            !.allocation[pid] = [j \in Idx(b.numResources) |->
                                    b.allocation[pid][j] + req[j]],
            !.need[pid] = [j \in Idx(b.numResources) |->
                              LET d == b.need[pid][j] - req[j]
                              IN  IF d < 0 THEN 0 ELSE d]]

applyRequestNeedAllRows(b, pid, req) ==
    IF pid < 0 \/ pid >= b.numProcesses THEN b
    ELSE [b EXCEPT
            !.allocation[pid] = [j \in Idx(b.numResources) |->
                                    b.allocation[pid][j] + req[j]],
            !.available = [j \in Idx(b.numResources) |->
                              b.available[j] - req[j]],
            !.need = [i \in Idx(b.numProcesses) |->
                         [j \in Idx(b.numResources) |->
                             LET d == b.need[i][j] - req[j]
                             IN  IF d < 0 THEN 0 ELSE d]]]

applyRequestKeepNeed(b, pid, req) ==
    IF pid < 0 \/ pid >= b.numProcesses THEN b
    ELSE [b EXCEPT
            !.allocation[pid] = [j \in Idx(b.numResources) |->
                                    b.allocation[pid][j] + req[j]],
            !.available = [j \in Idx(b.numResources) |->
                              b.available[j] - req[j]]]

applyRequest(b, pid, req) ==
    IF pid < 0 \/ pid >= b.numProcesses THEN b
    ELSE [b EXCEPT
            !.allocation[pid] = [j \in Idx(b.numResources) |->
                                    b.allocation[pid][j] + req[j]],
            !.available = [j \in Idx(b.numResources) |->
                              b.available[j] - req[j]],
            !.need[pid] = [j \in Idx(b.numResources) |->
                              LET d == b.need[pid][j] - req[j]
                              IN  IF d < 0 THEN 0 ELSE d]]

\* printNeedWithHeader(header): the header line, then one line per process
\* holding its Need row
printNeedWithHeader(b, header) ==
    <<OutLine(header, <<>>, <<>>)>>
        \o [k \in 1..b.numProcesses |-> OutLine("row", <<>>, b.need[k - 1])]

(* -------------------------------- main --------------------------------- *)
VARIABLES
    pc,            \* position of main()
    cinOk,         \* std::cin has not failed yet
    token,         \* main's token: the last keyword token extracted
    eofAt,         \* the field being read when the input ended, "" if it has not
    numResources,  \* main's numResources
    numProcesses,  \* main's numProcesses
    bankers,       \* the BankersAlgorithm object (zero-sized before line 189)
    procName,      \* the request token, <<>> when there is none
    request,       \* the request vector
    pid,           \* the process index parsed at lines 237-240
    out,           \* lines written to std::cout
    err,           \* lines written to std::cerr
    exitStatus,    \* value returned by main(), meaningful once pc = "exit"
    calls          \* member functions called so far, with their results

vars == <<pc, cinOk, token, eofAt, numResources, numProcesses, bankers,
          procName, request, pid, out, err, exitStatus, calls>>

Init ==
    /\ pc = "readR"
    /\ cinOk = TRUE
    /\ token = <<>>
    /\ eofAt = ""
    /\ numResources = 0
    /\ numProcesses = 0
    /\ bankers = Construct(0, 0)
    /\ procName = <<>>
    /\ request = <<>>
    /\ pid = 0 - 1
    /\ out = <<>>
    /\ err = <<>>
    /\ exitStatus = 0
    /\ calls = <<>>

\* return <status>; optionally after a line on std::cerr
Exit(status, msgs) ==
    /\ pc' = "exit"
    /\ exitStatus' = status
    /\ err' = err \o msgs

\* cin >> token fails: on a good stream that is the end of the input, met
\* while reading the named field; the target keeps its value
TokenFails(field) ==
    /\ cinOk' = FALSE
    /\ eofAt' = IF cinOk THEN field ELSE eofAt
    /\ UNCHANGED token

\* where the input ended, after integers were extracted leaving the stream
\* in state okAfter: a failure on a good stream is either the end of the
\* input or a token that is no integer
IntsEnd(okAfter, field) ==
    IF cinOk /\ ~okAfter THEN {eofAt, field} ELSE {eofAt}

\* lines 172-178
ReadR ==
    /\ pc = "readR"
    /\ \/ /\ TokenFails("R")
          /\ Exit(0, <<>>)
          /\ UNCHANGED numResources
       \/ \E t \in KeywordTokens :
            /\ token' = t
            /\ IF t = KwR \/ t = KwLowerR
               THEN \E r \in ReadInts(1, cinOk, 0..MaxR) :
                       /\ numResources' = r.vals[1]
                       /\ cinOk' = r.ok
                       /\ eofAt' \in IntsEnd(r.ok, "numResources")
                       /\ pc' = "readP"
                       /\ UNCHANGED <<exitStatus, err>>
               ELSE /\ Exit(1, <<ErrLine("Expected 'R' at start", <<>>)>>)
                    /\ UNCHANGED <<cinOk, eofAt, numResources>>
    /\ UNCHANGED <<numProcesses, bankers, procName, request, pid, out, calls>>

\* lines 180-189
ReadP ==
    /\ pc = "readP"
    /\ \/ /\ TokenFails("P")
          /\ Exit(1, <<ErrLine("Expected 'P' after resources", <<>>)>>)
          /\ UNCHANGED <<numProcesses, bankers>>
       \/ /\ cinOk
          /\ \E t \in KeywordTokens :
                /\ token' = t
                /\ IF t = KwP
                   THEN \E r \in ReadInts(1, cinOk, 0..MaxP) :
                           /\ numProcesses' = r.vals[1]
                           /\ cinOk' = r.ok
                           /\ eofAt' \in IntsEnd(r.ok, "numProcesses")
                           /\ bankers' = Construct(r.vals[1], numResources)
                           /\ pc' = "readAvailable"
                           /\ UNCHANGED <<exitStatus, err>>
                   ELSE /\ Exit(1, <<ErrLine("Expected 'P' token", <<>>)>>)
                        /\ UNCHANGED <<cinOk, eofAt, numProcesses, bankers>>
    /\ UNCHANGED <<numResources, procName, request, pid, out, calls>>

\* lines 192-199
ReadAvailable ==
    /\ pc = "readAvailable"
    /\ \/ /\ TokenFails("Available")
          /\ Exit(1, <<ErrLine("Unexpected EOF reading Available", <<>>)>>)
          /\ UNCHANGED bankers
       \/ /\ cinOk
          /\ \E t \in KeywordTokens :
                /\ token' = t
                /\ IF t # KwAvailable
                   THEN /\ Exit(1, <<ErrLine("Expected 'Available' but found", t)>>)
                        /\ UNCHANGED <<cinOk, eofAt, bankers>>
                   ELSE \E r \in ReadInts(numResources, cinOk, Vals) :
                           /\ bankers' = setAvailable(bankers,
                                           RowOf(r.vals, 0, numResources))
                           /\ cinOk' = r.ok
                           /\ eofAt' \in IntsEnd(r.ok, "Available values")
                           /\ pc' = "readMax"
                           /\ UNCHANGED <<exitStatus, err>>
    /\ UNCHANGED <<numResources, numProcesses, procName, request, pid, out,
                   calls>>

\* the for loop of lines 204-208 / 213-217: row i is set from the values read
RECURSIVE SetRows(_, _, _, _)
SetRows(b, i, vals, isMax) ==
    IF i >= b.numProcesses THEN b
    ELSE SetRows(IF isMax
                 THEN setMaxRow(b, i, RowOf(vals, i, b.numResources))
                 ELSE setAllocationRow(b, i, RowOf(vals, i, b.numResources)),
                 i + 1, vals, isMax)

\* lines 202-208
ReadMax ==
    /\ pc = "readMax"
    /\ \/ /\ TokenFails("Max")
          /\ Exit(1, <<ErrLine("Unexpected EOF reading Max", <<>>)>>)
          /\ UNCHANGED bankers
       \/ /\ cinOk
          /\ \E t \in KeywordTokens :
                /\ token' = t
                /\ IF t # KwMax
                   THEN /\ Exit(1, <<ErrLine("Expected 'Max' but found", t)>>)
                        /\ UNCHANGED <<cinOk, eofAt, bankers>>
                   ELSE \E r \in ReadInts(numProcesses * numResources, cinOk, Vals) :
                           /\ bankers' = SetRows(bankers, 0, r.vals, TRUE)
                           /\ cinOk' = r.ok
                           /\ eofAt' \in IntsEnd(r.ok, "Max values")
                           /\ pc' = "readAllocation"
                           /\ UNCHANGED <<exitStatus, err>>
    /\ UNCHANGED <<numResources, numProcesses, procName, request, pid, out,
                   calls>>

\* lines 211-217
ReadAllocation ==
    /\ pc = "readAllocation"
    /\ \/ /\ TokenFails("Allocation")
          /\ Exit(1, <<ErrLine("Unexpected EOF reading Allocation", <<>>)>>)
          /\ UNCHANGED bankers
       \/ /\ cinOk
          /\ \E t \in KeywordTokens :
                /\ token' = t
                /\ IF t # KwAllocation
                   THEN /\ Exit(1, <<ErrLine("Expected 'Allocation' but found", t)>>)
                        /\ UNCHANGED <<cinOk, eofAt, bankers>>
                   ELSE \E r \in ReadInts(numProcesses * numResources, cinOk, Vals) :
                           /\ bankers' = SetRows(bankers, 0, r.vals, FALSE)
                           /\ cinOk' = r.ok
                           /\ eofAt' \in IntsEnd(r.ok, "Allocation values")
                           /\ pc' = "readRequest"
                           /\ UNCHANGED <<exitStatus, err>>
    /\ UNCHANGED <<numResources, numProcesses, procName, request, pid, out,
                   calls>>

\* lines 220-230
ReadRequest ==
    /\ pc = "readRequest"
    /\ \/ /\ cinOk' = FALSE
          /\ eofAt' = IF cinOk THEN "request" ELSE eofAt
          /\ procName' = <<>>
          /\ request' = ZeroVec(numResources)
       \/ /\ cinOk
          /\ \E t \in ProcTokens \cup {KwP} :
             \E r \in ReadInts(numResources, cinOk, ReqVals) :
                /\ procName' = t
                /\ request' = RowOf(r.vals, 0, numResources)
                /\ cinOk' = r.ok
                /\ eofAt' \in IntsEnd(r.ok, "request values")
    /\ pc' = "computeNeed"
    /\ UNCHANGED <<token, numResources, numProcesses, bankers, pid, out, err,
                   exitStatus, calls>>

\* line 233
ComputeNeed ==
    /\ pc = "computeNeed"
    /\ bankers' = computeNeed(bankers)
    /\ calls' = Append(calls, Call("computeNeed", 0 - 1, <<>>, FALSE))
    /\ pc' = "checkSafe"
    /\ UNCHANGED <<cinOk, token, eofAt, numResources, numProcesses, procName,
                   request, pid,
                   out, err, exitStatus>>

\* lines 236-245 and 269-274 with the unsafe branch falling through to the
\* request check
CheckSafeFallThrough ==
    /\ pc = "checkSafe"
    /\ IF procName = <<>>
       THEN /\ Exit(0, <<>>)
            /\ UNCHANGED <<pid, bankers, calls, out>>
       ELSE LET r == isSafe(bankers) IN
            /\ pid' = ParsePid(procName)
            /\ bankers' = r.obj
            /\ calls' = Append(calls, Call("isSafe", 0 - 1, <<>>, r.ret))
            /\ out' = Append(out,
                        IF r.ret THEN OutLine("Before granting", procName, <<>>)
                        ELSE OutLine("current unsafe", <<>>, <<>>))
            /\ pc' = "checkRequest"
            /\ UNCHANGED <<exitStatus, err>>
    /\ UNCHANGED <<cinOk, token, eofAt, numResources, numProcesses, procName,
                   request>>

\* lines 236-245 and 269-274 without the test of line 236
CheckSafeAlways ==
    /\ pc = "checkSafe"
    /\ LET r == isSafe(bankers) IN
       /\ pid' = ParsePid(procName)
       /\ bankers' = r.obj
       /\ calls' = Append(calls, Call("isSafe", 0 - 1, <<>>, r.ret))
       /\ IF r.ret
          THEN /\ out' = Append(out, OutLine("Before granting", procName, <<>>))
               /\ pc' = "checkRequest"
               /\ UNCHANGED <<exitStatus, err>>
          ELSE /\ out' = Append(out, OutLine("current unsafe", <<>>, <<>>))
               /\ Exit(0, <<>>)
    /\ UNCHANGED <<cinOk, token, eofAt, numResources, numProcesses, procName,
                   request>>

\* lines 236-245 and 269-274: nothing to do without a request; otherwise the
\* pid is parsed, the current state is checked and the first line is printed
CheckSafe ==
    /\ pc = "checkSafe"
    /\ IF procName = <<>>
       THEN /\ Exit(0, <<>>)
            /\ UNCHANGED <<pid, bankers, calls, out>>
       ELSE LET r == isSafe(bankers) IN
            /\ pid' = ParsePid(procName)
            /\ bankers' = r.obj
            /\ calls' = Append(calls, Call("isSafe", 0 - 1, <<>>, r.ret))
            /\ IF r.ret
               THEN /\ out' = Append(out,
                                OutLine("Before granting", procName, <<>>))
                    /\ pc' = "checkRequest"
                    /\ UNCHANGED <<exitStatus, err>>
               ELSE /\ out' = Append(out, OutLine("current unsafe", <<>>, <<>>))
                    /\ Exit(0, <<>>)
    /\ UNCHANGED <<cinOk, token, eofAt, numResources, numProcesses, procName,
                   request>>

\* lines 249-252 without the return
CheckRequestNoReturn ==
    /\ pc = "checkRequest"
    /\ LET r == canRequest(bankers, pid, request) IN
       /\ bankers' = r.obj
       /\ calls' = Append(calls, Call("canRequest", pid, request, r.ret))
       /\ out' = IF r.ret THEN out
                 ELSE Append(out, OutLine("exceeds need or available",
                                          procName, <<>>))
       /\ pc' = "grant"
       /\ UNCHANGED <<exitStatus, err>>
    /\ UNCHANGED <<cinOk, token, eofAt, numResources, numProcesses, procName,
                   request, pid>>

\* lines 249-252: an invalid request is reported and main returns 0
CheckRequest ==
    /\ pc = "checkRequest"
    /\ LET r == canRequest(bankers, pid, request) IN
       /\ bankers' = r.obj
       /\ calls' = Append(calls, Call("canRequest", pid, request, r.ret))
       /\ IF r.ret
          THEN /\ pc' = "grant"
               /\ UNCHANGED <<out, exitStatus, err>>
          ELSE /\ out' = Append(out, OutLine("exceeds need or available",
                                             procName, <<>>))
               /\ Exit(0, <<>>)
    /\ UNCHANGED <<cinOk, token, eofAt, numResources, numProcesses, procName,
                   request, pid>>

\* lines 255-259 with the Need matrix printed before the request is applied
GrantPrintFirst ==
    /\ pc = "grant"
    /\ out' = Append(out, OutLine("Simulating granting", procName, <<>>))
                \o printNeedWithHeader(bankers, "New Need")
    /\ bankers' = applyRequest(bankers, pid, request)
    /\ calls' = Append(calls, Call("applyRequest", pid, request, FALSE))
    /\ pc' = "verdict"
    /\ UNCHANGED <<cinOk, token, eofAt, numResources, numProcesses, procName,
                   request, pid,
                   err, exitStatus>>

\* lines 255-259: the grant is announced and applied, the new Need is printed
Grant ==
    /\ pc = "grant"
    /\ bankers' = applyRequest(bankers, pid, request)
    /\ calls' = Append(calls, Call("applyRequest", pid, request, FALSE))
    /\ out' = Append(out, OutLine("Simulating granting", procName, <<>>))
                \o printNeedWithHeader(bankers', "New Need")
    /\ pc' = "verdict"
    /\ UNCHANGED <<cinOk, token, eofAt, numResources, numProcesses, procName,
                   request, pid,
                   err, exitStatus>>

\* lines 262-274 with the grant undone when the state after it is unsafe
VerdictRollback ==
    /\ pc = "verdict"
    /\ LET r == isSafe(bankers) IN
       /\ bankers' = IF r.ret THEN r.obj
                     ELSE applyRequest(r.obj, pid,
                            [j \in Idx(numResources) |-> 0 - request[j]])
       /\ calls' = Append(calls, Call("isSafe", 0 - 1, <<>>, r.ret))
       /\ out' = Append(out,
                    IF r.ret THEN OutLine("can be granted, safe", procName, <<>>)
                    ELSE OutLine("cannot be granted, unsafe", procName, <<>>))
    /\ Exit(0, <<>>)
    /\ UNCHANGED <<cinOk, token, eofAt, numResources, numProcesses, procName,
                   request, pid>>

\* lines 262-274: the state after the grant is checked and the verdict printed
Verdict ==
    /\ pc = "verdict"
    /\ LET r == isSafe(bankers) IN
       /\ bankers' = r.obj
       /\ calls' = Append(calls, Call("isSafe", 0 - 1, <<>>, r.ret))
       /\ out' = Append(out,
                    IF r.ret THEN OutLine("can be granted, safe", procName, <<>>)
                    ELSE OutLine("cannot be granted, unsafe", procName, <<>>))
    /\ Exit(0, <<>>)
    /\ UNCHANGED <<cinOk, token, eofAt, numResources, numProcesses, procName,
                   request, pid>>

Next ==
    \/ ReadR
    \/ ReadP
    \/ ReadAvailable
    \/ ReadMax
    \/ ReadAllocation
    \/ ReadRequest
    \/ ComputeNeed
    \/ CheckSafe
    \/ CheckRequest
    \/ Grant
    \/ Verdict

Spec == Init /\ [][Next]_vars

(* ------------------- isSafe() as a function of the state -------------- *)
\* The object as main() has it at line 242: constructed, loaded through the
\* setters, computeNeed() run.
Loaded(p, r, av, mx, al) ==
    computeNeed(
        SetRows(SetRows(setAvailable(Construct(p, r), RowOf(av, 0, r)),
                        0, mx, TRUE),
                0, al, FALSE))

SafetyInit ==
    /\ pc = "isSafe"
    /\ cinOk = TRUE
    /\ token = <<>>
    /\ eofAt = ""
    /\ \E p \in 0..SafeMaxP, r \in 0..MaxR :
          /\ numProcesses = p
          /\ numResources = r
          /\ \E av \in [1..r -> Vals], mx \in [1..(p * r) -> 0..SafeMaxMax],
                al \in [1..(p * r) -> Vals] :
                bankers = Loaded(p, r, av, mx, al)
    /\ procName = <<>>
    /\ request = <<>>
    /\ pid = 0 - 1
    /\ out = <<>>
    /\ err = <<>>
    /\ exitStatus = 0
    /\ calls = <<>>

\* one more call of isSafe() on the object
CallIsSafe ==
    /\ pc = "isSafe"
    /\ Len(calls) < MaxCalls
    /\ LET r == isSafe(bankers) IN
       /\ bankers' = r.obj
       /\ calls' = Append(calls, Call("isSafe", 0 - 1, <<>>, r.ret))
    /\ UNCHANGED <<pc, cinOk, token, eofAt, numResources, numProcesses, procName,
                   request,
                   pid, out, err, exitStatus>>

SafetyNext == CallIsSafe

SafetySpec == SafetyInit /\ [][SafetyNext]_vars

(* ------------------ the member functions called directly -------------- *)
\* vectors a caller may pass to a setter: every length up to MaxR + 1
ArgVectors == UNION {[Idx(n) -> Vals] : n \in 0..(MaxR + 1)}

\* process indices a caller may pass: in range, below and above
ArgPids == (0 - 1)..MaxP

ObjectInit ==
    /\ pc = "object"
    /\ cinOk = TRUE
    /\ token = <<>>
    /\ eofAt = ""
    /\ \E p \in 0..MaxP, r \in 0..MaxR :
          /\ numProcesses = p
          /\ numResources = r
          /\ \E av \in [1..r -> Vals], mx \in [1..(p * r) -> Vals],
                al \in [1..(p * r) -> Vals] :
                bankers = Loaded(p, r, av, mx, al)
    /\ procName = <<>>
    /\ request = <<>>
    /\ pid = 0 - 1
    /\ out = <<>>
    /\ err = <<>>
    /\ exitStatus = 0
    /\ calls = <<>>

\* what a call on the object leaves alone
ObjectFrame ==
    UNCHANGED <<pc, cinOk, token, eofAt, numResources, numProcesses, procName,
                request, pid, out, err, exitStatus>>

CallSetAvailable ==
    /\ pc = "object" /\ Len(calls) < ObjectCalls
    /\ \E av \in ArgVectors :
          /\ bankers' = setAvailable(bankers, av)
          /\ calls' = Append(calls, Call("setAvailable", 0 - 1, av, FALSE))
    /\ ObjectFrame

CallSetMaxRow ==
    /\ pc = "object" /\ Len(calls) < ObjectCalls
    /\ \E p \in ArgPids, row \in ArgVectors :
          /\ bankers' = setMaxRow(bankers, p, row)
          /\ calls' = Append(calls, Call("setMaxRow", p, row, FALSE))
    /\ ObjectFrame

CallSetAllocationRow ==
    /\ pc = "object" /\ Len(calls) < ObjectCalls
    /\ \E p \in ArgPids, row \in ArgVectors :
          /\ bankers' = setAllocationRow(bankers, p, row)
          /\ calls' = Append(calls, Call("setAllocationRow", p, row, FALSE))
    /\ ObjectFrame

CallComputeNeed ==
    /\ pc = "object" /\ Len(calls) < ObjectCalls
    /\ bankers' = computeNeed(bankers)
    /\ calls' = Append(calls, Call("computeNeed", 0 - 1, <<>>, FALSE))
    /\ ObjectFrame

\* the request vector has numResources components: both functions read
\* req[j] for every j < numResources
CallCanRequest ==
    /\ pc = "object" /\ Len(calls) < ObjectCalls
    /\ \E p \in ArgPids, req \in [Idx(numResources) -> ReqVals] :
          LET r == canRequest(bankers, p, req) IN
          /\ bankers' = r.obj
          /\ calls' = Append(calls, Call("canRequest", p, req, r.ret))
    /\ ObjectFrame

CallApplyRequest ==
    /\ pc = "object" /\ Len(calls) < ObjectCalls
    /\ \E p \in ArgPids, req \in [Idx(numResources) -> ReqVals] :
          /\ bankers' = applyRequest(bankers, p, req)
          /\ calls' = Append(calls, Call("applyRequest", p, req, FALSE))
    /\ ObjectFrame

ObjectNext ==
    \/ CallSetAvailable
    \/ CallSetMaxRow
    \/ CallSetAllocationRow
    \/ CallComputeNeed
    \/ CallCanRequest
    \/ CallApplyRequest

ObjectSpec == ObjectInit /\ [][ObjectNext]_vars

(* ------------------------------ properties ---------------------------- *)
LastCall == calls[Len(calls)]

\* every entry of Available, Max and Allocation is a non-negative integer
NonNegative(b) ==
    /\ \A j \in Idx(b.numResources) : b.available[j] >= 0
    /\ \A i \in Idx(b.numProcesses) : \A j \in Idx(b.numResources) :
          b.max[i][j] >= 0 /\ b.allocation[i][j] >= 0

\* Need is what computeNeed() makes it
NeedComputed(b) ==
    \A i \in Idx(b.numProcesses) : \A j \in Idx(b.numResources) :
        b.need[i][j] = IF b.max[i][j] - b.allocation[i][j] > 0
                       THEN b.max[i][j] - b.allocation[i][j] ELSE 0

\* orderings of all P processes
Orderings(p) ==
    {f \in [1..p -> Idx(p)] : \A a, c \in 1..p : a # c => f[a] # f[c]}

\* sum of allocation[f[m]][j] over the positions m < k of the ordering f
RECURSIVE HeldBefore(_, _, _, _)
HeldBefore(b, f, k, j) ==
    IF k <= 1 THEN 0
    ELSE b.allocation[f[k - 1]][j] + HeldBefore(b, f, k - 1, j)

IsSafeSequence(b, f) ==
    \A k \in 1..b.numProcesses : \A j \in Idx(b.numResources) :
        b.need[f[k]][j] <= b.available[j] + HeldBefore(b, f, k, j)

SafeSequenceExists(b) ==
    \E f \in Orderings(b.numProcesses) : IsSafeSequence(b, f)

\* C1: on a state with non-negative entries on which computeNeed() has run,
\* isSafe() returns true if and only if some ordering of all the processes is
\* a safe sequence (each process's need is covered by Available plus the
\* allocations of the processes placed before it).
C1_SafeIffSequence ==
    (calls # <<>> /\ LastCall.op = "isSafe"
        /\ NonNegative(bankers) /\ NeedComputed(bankers))
    => (LastCall.ret <=> SafeSequenceExists(bankers))

\* three processes, safe, but not in ascending index order
C1_Witness ==
    /\ calls # <<>> /\ LastCall.op = "isSafe" /\ LastCall.ret
    /\ NonNegative(bankers) /\ NeedComputed(bankers)
    /\ bankers.numProcesses = 3
    /\ ~IsSafeSequence(bankers, [k \in 1..3 |-> k - 1])

\* sum of allocation[i][j] over the processes i of the set F
RECURSIVE HeldBy(_, _, _)
HeldBy(b, F, j) ==
    IF F = {} THEN 0
    ELSE LET i == CHOOSE x \in F : TRUE
         IN  b.allocation[i][j] + HeldBy(b, F \ {i}, j)

\* unfinished processes whose need row is <= work once the set F has finished
Eligible(b, F) ==
    {i \in Idx(b.numProcesses) \ F :
        \A j \in Idx(b.numResources) :
            b.need[i][j] <= b.available[j] + HeldBy(b, F, j)}

\* results of the variant that picks any eligible process at each step and
\* stops when none remains: TRUE when it ends with every process finished
RECURSIVE AnyOrderResults(_, _)
AnyOrderResults(b, F) ==
    IF Eligible(b, F) = {} THEN {F = Idx(b.numProcesses)}
    ELSE UNION {AnyOrderResults(b, F \cup {i}) : i \in Eligible(b, F)}

\* C2: the result does not depend on the scan order: every run of the variant
\* that picks any eligible unfinished process at each step ends with all
\* processes finished exactly when isSafe() returns true.
C2_ScanOrderIrrelevant ==
    (calls # <<>> /\ LastCall.op = "isSafe" /\ NonNegative(bankers))
    => AnyOrderResults(bankers, {}) = {LastCall.ret}

\* three processes, at least two of them eligible at the start, one that
\* becomes eligible only later
C2_Witness ==
    /\ calls # <<>> /\ LastCall.op = "isSafe" /\ NonNegative(bankers)
    /\ bankers.numProcesses = 3
    /\ Cardinality(Eligible(bankers, {})) = 2
    /\ LastCall.ret

\* C6: isSafe() is a pure observation: a call leaves Available, Max,
\* Allocation and Need as they were, and a call that follows another with
\* nothing in between returns the same boolean.
C6_IsSafePure ==
    [][pc = "isSafe" =>
        /\ bankers' = bankers
        /\ calls # <<>> => calls'[Len(calls')].ret = LastCall.ret]_vars

\* a second call in a row, on a state where the loop released allocations
C6_Witness ==
    /\ pc = "isSafe" /\ Len(calls) >= 2
    /\ \E i \in Idx(bankers.numProcesses) : \E j \in Idx(bankers.numResources) :
          bankers.allocation[i][j] > 0 /\ Eligible(bankers, {}) # {}

\* the request is within need[pid] and within available, component-wise
WithinNeedAndAvailable(b, p, req) ==
    \A j \in Idx(b.numResources) :
        req[j] <= b.need[p][j] /\ req[j] <= b.available[j]

\* C3: canRequest(pid, req) returns true if and only if pid is in [0, P) and
\* req[j] <= need[pid][j] and req[j] <= available[j] for every resource j;
\* the call leaves Available, Max, Allocation and Need unchanged.
C3_CanRequestExact ==
    [][pc = "checkRequest" =>
        /\ calls'[Len(calls')].op = "canRequest"
        /\ calls'[Len(calls')].ret <=>
              (/\ pid \in Idx(bankers.numProcesses)
               /\ WithinNeedAndAvailable(bankers, pid, request))
        /\ bankers' = bankers]_vars

\* a request refused for an in-range pid although it is within the need:
\* only Available is exceeded
C3_Witness ==
    /\ calls # <<>> /\ LastCall.op = "canRequest" /\ ~LastCall.ret
    /\ pid \in Idx(bankers.numProcesses)
    /\ \A j \in Idx(bankers.numResources) : request[j] <= bankers.need[pid][j]

\* instances of resource j in the system: held by the processes or available
RECURSIVE HeldUpTo(_, _, _)
HeldUpTo(b, n, j) ==
    IF n <= 0 THEN 0 ELSE b.allocation[n - 1][j] + HeldUpTo(b, n - 1, j)

Total(b, j) == HeldUpTo(b, b.numProcesses, j) + b.available[j]

\* C4: applying a valid request adds it to allocation[pid], subtracts it from
\* available, and keeps the total of every resource (allocated plus
\* available) the same.
C4_ApplyConserves ==
    [][pc = "grant" =>
        \A j \in Idx(bankers.numResources) :
            /\ bankers'.allocation[pid][j] = bankers.allocation[pid][j] + request[j]
            /\ bankers'.available[j] = bankers.available[j] - request[j]
            /\ Total(bankers', j) = Total(bankers, j)]_vars

\* a request with a non-zero component has been applied
C4_Witness ==
    /\ pc = "verdict"
    /\ LastCall.op = "applyRequest"
    /\ \E j \in Idx(bankers.numResources) : request[j] > 0

\* C5: after computeNeed(), need[i][j] = max(0, max[i][j] - allocation[i][j])
\* for every process i and resource j; no Need entry is negative.
C5_NeedClamped ==
    pc = "checkSafe" =>
        \A i \in Idx(bankers.numProcesses) : \A j \in Idx(bankers.numResources) :
            /\ bankers.need[i][j] >= 0
            /\ bankers.allocation[i][j] > bankers.max[i][j]
                  => bankers.need[i][j] = 0
            /\ bankers.allocation[i][j] <= bankers.max[i][j]
                  => bankers.need[i][j] = bankers.max[i][j] - bankers.allocation[i][j]

\* computeNeed() has run on a state where an allocation exceeds the maximum
C5_Witness ==
    /\ pc = "checkSafe"
    /\ \E i \in Idx(bankers.numProcesses) : \E j \in Idx(bankers.numResources) :
          bankers.allocation[i][j] > bankers.max[i][j]

\* In a run of main() the log starts with computeNeed(), then the isSafe()
\* of line 243, then canRequest(), applyRequest() and the isSafe() of line 262.
PreRequestSafe ==
    Len(calls) >= 2 /\ calls[2].op = "isSafe" /\ calls[2].ret

PreRequestUnsafe ==
    Len(calls) >= 2 /\ calls[2].op = "isSafe" /\ ~calls[2].ret

RequestAccepted ==
    PreRequestSafe /\ Len(calls) >= 3 /\ calls[3].op = "canRequest" /\ calls[3].ret

RequestRefused ==
    PreRequestSafe /\ Len(calls) >= 3 /\ calls[3].op = "canRequest" /\ ~calls[3].ret

NeedRows(b) == [k \in 1..b.numProcesses |-> OutLine("row", <<>>, b.need[k - 1])]

\* C7: when the pre-request state is safe and the request passes canRequest,
\* standard output is, in this order: the 'Before granting' line, the
\* 'Simulating granting' line, the 'New Need' header, the P rows of the Need
\* matrix after the grant, and one verdict line, which is 'can be granted'
\* exactly when the state after the grant is safe; the exit status is 0.
C7_GrantedOutput ==
    (pc = "exit" /\ RequestAccepted) =>
        /\ out = <<OutLine("Before granting", procName, <<>>),
                   OutLine("Simulating granting", procName, <<>>),
                   OutLine("New Need", <<>>, <<>>)>>
                    \o NeedRows(bankers)
                    \o <<IF isSafe(bankers).ret
                         THEN OutLine("can be granted, safe", procName, <<>>)
                         ELSE OutLine("cannot be granted, unsafe", procName, <<>>)>>
        /\ exitStatus = 0

\* a grant that changed a Need row and left the system unsafe
C7_Witness ==
    /\ pc = "exit" /\ RequestAccepted
    /\ \E j \in Idx(bankers.numResources) : request[j] > 0
    /\ out[Len(out)].line = "cannot be granted, unsafe"

\* C8: when the pre-request state is unsafe, the only line printed is 'The
\* current system is in unsafe state.', main returns 0 at once, canRequest
\* and applyRequest are never called, and Allocation, Available and Need
\* keep the values they had before the check.
C8_UnsafeStops ==
    /\ [](PreRequestUnsafe =>
            /\ pc = "exit" /\ exitStatus = 0
            /\ out = <<OutLine("current unsafe", <<>>, <<>>)>>
            /\ Len(calls) = 2)
    /\ [][(pc = "checkSafe" \/ PreRequestUnsafe) => bankers' = bankers]_vars

\* main has returned after finding the loaded state unsafe, with a request
\* that canRequest would have accepted
C8_Witness ==
    /\ pc = "exit" /\ PreRequestUnsafe
    /\ canRequest(bankers, pid, request).ret

\* C9: when the pre-request state is safe and canRequest refuses the request,
\* standard output is the 'Before granting' line followed by the 'cannot be
\* granted (exceeds need or available)' line, main returns 0, applyRequest is
\* not called and the object is unchanged.  In every run applyRequest is
\* called at most once, and only after isSafe() returned true and canRequest
\* returned true for the same pid and request.
C9_RefusedStops ==
    /\ [](RequestRefused =>
            /\ pc = "exit" /\ exitStatus = 0
            /\ out = <<OutLine("Before granting", procName, <<>>),
                       OutLine("exceeds need or available", procName, <<>>)>>
            /\ Len(calls) = 3)
    /\ [](\A k \in 1..Len(calls) :
            calls[k].op = "applyRequest" =>
                /\ k = 4
                /\ calls[2].op = "isSafe" /\ calls[2].ret
                /\ calls[3] = Call("canRequest", calls[k].pid, calls[k].req, TRUE))
    /\ [][(pc = "checkRequest" \/ RequestRefused) => bankers' = bankers]_vars

\* main has returned after refusing a request of an existing process
C9_Witness ==
    /\ pc = "exit" /\ RequestRefused
    /\ pid \in Idx(bankers.numProcesses)

\* the request token is 'P' or 'p' followed by an integer
ParseableProcName(t) ==
    t # <<>> /\ Head(t) \in {"P", "p"} /\ Stoi(Tail(t)).ok

\* C10: a request line whose process index cannot be parsed is fatal: it is
\* reported on the diagnostic stream, the exit status is non-zero and
\* nothing is printed on standard output.
C10_UnparsedIsFatal ==
    (pc = "exit" /\ procName # <<>> /\ ~ParseableProcName(procName)) =>
        /\ exitStatus # 0
        /\ err # <<>>
        /\ out = <<>>

\* the fields the input format requires, in the order they are read
RequiredFields ==
    {"R", "numResources", "P", "numProcesses", "Available", "Available values",
     "Max", "Max values", "Allocation", "Allocation values"}

\* C11: if the input ends before a required token has been read (from the R
\* keyword to the last integer of the Allocation matrix), the run is fatal:
\* a message is written to the diagnostic stream and the exit status is 1.
C11_TruncatedIsFatal ==
    (pc = "exit" /\ eofAt \in RequiredFields) =>
        /\ exitStatus = 1
        /\ err # <<>>

\* the step extracted a keyword token: the stream was good and the input did
\* not end at that field
Extracted(field) == cinOk /\ eofAt' # field

ParseError == pc' = "exit" /\ exitStatus' = 1

\* C12: the keyword at the R position is accepted as 'R' or 'r', the keyword
\* at the P position as 'P' or 'p'; any other token there, and any token but
\* the exact words 'Available', 'Max', 'Allocation' at their positions, ends
\* the run with status 1; once the five keywords are accepted the run exits
\* with status 0.
C12_KeywordsChecked ==
    /\ [][/\ (pc = "readR" /\ Extracted("R")) =>
                IF token' \in {KwR, KwLowerR} THEN pc' = "readP" ELSE ParseError
          /\ (pc = "readP" /\ Extracted("P")) =>
                IF token' \in {KwP, KwLowerP} THEN pc' = "readAvailable"
                ELSE ParseError
          /\ (pc = "readAvailable" /\ Extracted("Available")) =>
                IF token' = KwAvailable THEN pc' = "readMax" ELSE ParseError
          /\ (pc = "readMax" /\ Extracted("Max")) =>
                IF token' = KwMax THEN pc' = "readAllocation" ELSE ParseError
          /\ (pc = "readAllocation" /\ Extracted("Allocation")) =>
                IF token' = KwAllocation THEN pc' = "readRequest"
                ELSE ParseError]_vars
    /\ [](pc = "exit" /\ calls # <<>> => exitStatus = 0)

\* C13: when the input is well formed and ends after the Allocation matrix
\* (no request line), nothing is printed on standard output, isSafe,
\* canRequest and applyRequest are never called, and the exit status is 0.
C13_NoRequestNoOutput ==
    (eofAt = "request" /\ pc \in {"computeNeed", "checkSafe", "exit"}) =>
        /\ out = <<>>
        /\ \A k \in 1..Len(calls) : calls[k].op = "computeNeed"
        /\ pc = "exit" => exitStatus = 0 /\ err = <<>> /\ Len(calls) = 1

\* main has returned on an input without a request line whose state is unsafe
C13_Witness ==
    /\ pc = "exit" /\ eofAt = "request"
    /\ bankers.numProcesses > 0
    /\ ~isSafe(bankers).ret

RECURSIVE AfterPasses(_, _)
AfterPasses(b, k) ==
    IF k = 0
    THEN [work |-> b.available,
          finish |-> [i \in Idx(b.numProcesses) |-> FALSE],
          progressed |-> TRUE]
    ELSE LET prev == AfterPasses(b, k - 1)
         IN  Pass(b, prev.work, prev.finish)

Finished(st) == {i \in DOMAIN st.finish : st.finish[i]}

\* C15: isSafe() terminates after at most P + 1 passes (exactly 1 when
\* P = 0): every pass but the last marks at least one more process as
\* finished, no pass unmarks one, and the last pass is the first that makes
\* no progress.
C15_PassesBounded ==
    (calls # <<>> /\ LastCall.op = "isSafe") =>
        LET n == isSafe(bankers).passes IN
        /\ n >= 1 /\ n <= bankers.numProcesses + 1
        /\ bankers.numProcesses = 0 => n = 1
        /\ \A k \in 1..n :
              LET before == AfterPasses(bankers, k - 1)
                  after == AfterPasses(bankers, k)
              IN  /\ Finished(before) \subseteq Finished(after)
                  /\ k < n => after.progressed
                                /\ Finished(before) # Finished(after)
                  /\ k = n => ~after.progressed
                                /\ Finished(before) = Finished(after)

\* three processes that finish one per pass: P + 1 = 4 passes
C15_Witness ==
    /\ calls # <<>> /\ LastCall.op = "isSafe"
    /\ bankers.numProcesses = 3
    /\ isSafe(bankers).passes = 4

\* C16: the grant is never rolled back: once canRequest has accepted the
\* request main goes on to applyRequest, which adds req to allocation[pid]
\* and subtracts it from available, and the isSafe() that follows leaves
\* these values in place up to the return, whatever its verdict.
C16_NoRollback ==
    [][/\ (pc = "checkRequest" /\ calls'[Len(calls')].ret) => pc' = "grant"
       /\ pc = "grant" =>
            /\ calls' = Append(calls, Call("applyRequest", pid, request, FALSE))
            /\ bankers'.allocation[pid] =
                  [j \in Idx(numResources) |->
                      bankers.allocation[pid][j] + request[j]]
            /\ bankers'.available =
                  [j \in Idx(numResources) |-> bankers.available[j] - request[j]]
            /\ pc' = "verdict"
       /\ pc = "verdict" => bankers' = bankers /\ pc' = "exit"]_vars

\* main has returned with the verdict 'unsafe' after applying a request
\* that changed the state
C16_Witness ==
    /\ pc = "exit" /\ Len(calls) = 5
    /\ calls[4].op = "applyRequest"
    /\ ~calls[5].ret
    /\ \E j \in Idx(numResources) : request[j] # 0

\* C17: a request with a negative component is accepted by canRequest
\* whenever req <= need[pid] and req <= available hold; applyRequest then
\* raises available[j] by |req[j]| and lowers allocation[pid][j] by |req[j]|.
C17_NegativeAccepted ==
    [][/\ (/\ pc = "checkRequest"
           /\ pid \in Idx(bankers.numProcesses)
           /\ \E j \in Idx(numResources) : request[j] < 0
           /\ WithinNeedAndAvailable(bankers, pid, request))
            => calls'[Len(calls')].ret /\ pc' = "grant"
       /\ pc = "grant" =>
            \A j \in Idx(numResources) :
                request[j] < 0 =>
                    /\ bankers'.available[j] = bankers.available[j] + (0 - request[j])
                    /\ bankers'.allocation[pid][j] =
                          bankers.allocation[pid][j] - (0 - request[j])]_vars

\* a negative request has been applied and left a negative allocation
C17_Witness ==
    /\ pc = "verdict" /\ LastCall.op = "applyRequest"
    /\ \E j \in Idx(numResources) :
          request[j] < 0 /\ bankers.allocation[pid][j] < 0

\* the call made by the step
NewCall == calls'[Len(calls')]

\* C18: applyRequest(pid, req) changes only row pid of Allocation, row pid of
\* Need, and Available: Max and every other row of Allocation and Need are
\* as before, and a pid outside [0, P) changes nothing at all.  No function
\* but the setter of Max changes Max.
C18_ApplyFrame ==
    [][/\ NewCall.op = "applyRequest" =>
            /\ bankers'.max = bankers.max
            /\ bankers'.numProcesses = bankers.numProcesses
            /\ bankers'.numResources = bankers.numResources
            /\ \A i \in Idx(bankers.numProcesses) :
                  i # NewCall.pid =>
                      /\ bankers'.allocation[i] = bankers.allocation[i]
                      /\ bankers'.need[i] = bankers.need[i]
            /\ NewCall.pid \notin Idx(bankers.numProcesses) => bankers' = bankers
       /\ NewCall.op # "setMaxRow" => bankers'.max = bankers.max]_vars

\* applyRequest was called with a pid out of range and a non-zero request on
\* an object that has processes
C18_Witness ==
    /\ calls # <<>> /\ LastCall.op = "applyRequest"
    /\ bankers.numProcesses = 2
    /\ LastCall.pid \notin Idx(bankers.numProcesses)
    /\ \E j \in Idx(bankers.numResources) : LastCall.req[j] # 0

\* C19: setAvailable with a vector whose length is not R, and setMaxRow /
\* setAllocationRow with a pid outside [0, P) or a row whose length is not R,
\* change nothing and signal no error; with valid arguments each setter
\* replaces exactly the targeted vector or row.
C19_SettersValidate ==
    [][/\ NewCall.op = "setAvailable" =>
            bankers' = IF Size(NewCall.req) = bankers.numResources
                       THEN [bankers EXCEPT !.available = NewCall.req]
                       ELSE bankers
       /\ NewCall.op = "setMaxRow" =>
            bankers' = IF /\ NewCall.pid \in Idx(bankers.numProcesses)
                          /\ Size(NewCall.req) = bankers.numResources
                       THEN [bankers EXCEPT !.max[NewCall.pid] = NewCall.req]
                       ELSE bankers
       /\ NewCall.op = "setAllocationRow" =>
            bankers' = IF /\ NewCall.pid \in Idx(bankers.numProcesses)
                          /\ Size(NewCall.req) = bankers.numResources
                       THEN [bankers EXCEPT !.allocation[NewCall.pid] = NewCall.req]
                       ELSE bankers
       /\ NewCall.op \in {"setAvailable", "setMaxRow", "setAllocationRow"} =>
            UNCHANGED <<pc, err, exitStatus>>]_vars

\* setMaxRow was called with a valid pid and a row that is too short, with
\* entries that differ from the row in place
C19_Witness ==
    /\ calls # <<>> /\ LastCall.op = "setMaxRow"
    /\ LastCall.pid \in Idx(bankers.numProcesses)
    /\ bankers.numResources = 2
    /\ Size(LastCall.req) = 1
    /\ LastCall.req[0] # bankers.max[LastCall.pid][0]

\* the loaded matrices the claim starts from: Available and Allocation are
\* non-negative and no Allocation entry is above Max
WellLoaded(b) ==
    /\ \A j \in Idx(b.numResources) : b.available[j] >= 0
    /\ \A i \in Idx(b.numProcesses) : \A j \in Idx(b.numResources) :
          b.allocation[i][j] >= 0 /\ b.allocation[i][j] <= b.max[i][j]

WellFormed(b) ==
    /\ \A j \in Idx(b.numResources) : b.available[j] >= 0
    /\ \A i \in Idx(b.numProcesses) : \A j \in Idx(b.numResources) :
          b.allocation[i][j] <= b.max[i][j] /\ b.need[i][j] >= 0

RequestNonNegative == \A j \in Idx(numResources) : request[j] >= 0

\* the object as it was before applyRequest(pid, request) acted on it
BeforeGrant ==
    [bankers EXCEPT
        !.allocation[pid] = [j \in Idx(numResources) |->
                                bankers.allocation[pid][j] - request[j]],
        !.available = [j \in Idx(numResources) |->
                          bankers.available[j] + request[j]]]

Granted == Len(calls) >= 4 /\ calls[4].op = "applyRequest"

\* C20: when the loaded Available and Allocation are non-negative with
\* Allocation <= Max, and the request is non-negative and accepted by
\* canRequest, applyRequest leaves Available >= 0, Allocation <= Max and
\* Need >= 0; and no state of such a run, before or after the grant, has a
\* negative Available entry or an Allocation entry above Max.
C20_GrantKeepsWellFormed ==
    /\ [][(pc = "grant" /\ WellLoaded(bankers) /\ RequestNonNegative
             /\ calls[3].op = "canRequest" /\ calls[3].ret)
          => WellFormed(bankers')]_vars
    /\ [](/\ (Len(calls) >= 1 /\ ~Granted /\ WellLoaded(bankers))
               => WellFormed(bankers)
          /\ (Granted /\ RequestNonNegative /\ WellLoaded(BeforeGrant))
               => WellFormed(bankers))

\* a non-negative request was granted on a well-formed state and took the
\* last free instance of a resource and brought Allocation up to Max
C20_Witness ==
    /\ pc = "verdict" /\ Granted
    /\ RequestNonNegative /\ WellLoaded(BeforeGrant)
    /\ \E j \in Idx(numResources) :
          /\ request[j] > 0
          /\ bankers.available[j] = 0
          /\ bankers.allocation[pid][j] = bankers.max[pid][j]

=============================================================================
